---- MODULE Spec2Model ----
(***************************************************************************)
(* Model of app_for_201407.py: a Streamlit front end that stores answers   *)
(* in a Google spreadsheet (one row per username), asks for confirmation   *)
(* before overwriting a non-empty cell, and appends free-form questions to *)
(* a second worksheet.  Every remote call goes through with_retry.         *)
(*                                                                         *)
(* One step of the model is one remote call of a script run together with  *)
(* the local code that follows it up to the next remote call.  A remote    *)
(* call that raises has no effect on the spreadsheet.                      *)
(***************************************************************************)
EXTENDS Integers, Sequences, FiniteSets, TLC

----------------------------------------------------------------------------
(* Bounds of the model *)

\* number of entries of the options list (18 in the source, lines 128-147)
NumOptions == 2
\* largest number of rows of the answer sheet, header included
MaxRows == 3
\* largest number of rows of the question sheet
MaxQLog == 2
\* clock readings available to add_question
MaxTime == 1
\* largest max_retries the retry harness is run with
MaxN == 3
\* largest number of submissions of the same answer form in a row
MaxRepeat == 3

(* Program constants *)

\* default of with_retry's max_retries parameter; every call site uses it
MaxRetries == 3

\* the sessions of the deployment; Spec runs session 1 only
AllSessions == {1, 2}

\* user names typed into the forms ("" is the empty text input)
Names == {"a", "b"}
\* answers typed into the text area ("" is the empty text area); "a" is
\* also a user name
Answers == {"", "a"}
\* texts typed into the question form
Questions == {"", "x"}

\* result of a remote call: it returns, raises gspread's APIError, or raises
\* any other exception
Outcomes == {"ok", "api", "other"}

\* width of the answer sheet: the username column and one column per option
NCols == NumOptions + 1

\* Python's None for a string-valued slot
NoneStr == "<None>"

\* row 1 of the answer sheet: the question labels
Header == [c \in 1..NCols |-> IF c = 1 THEN "name" ELSE "q" \o ToString(c - 1)]

----------------------------------------------------------------------------
(* The spreadsheet collaborator (gspread Worksheet) *)

\* what Worksheet.find returns when nothing matches
NoCell == [row |-> 0, col |-> 0]

\* Worksheet.find(value): the first cell, in row-major order, whose value
\* equals the query; every column is searched
FindCell(sh, v) ==
  LET hits == {rc \in (1..Len(sh)) \X (1..NCols) : sh[rc[1]][rc[2]] = v}
  IN  IF hits = {} THEN NoCell
      ELSE LET h == CHOOSE h \in hits : \A g \in hits :
                       h[1] < g[1] \/ (h[1] = g[1] /\ h[2] <= g[2])
           IN  [row |-> h[1], col |-> h[2]]

\* Worksheet.cell(row, col).value
CellValue(sh, row, col) == sh[row][col]

\* Worksheet.update_cell(row, col, value)
UpdateCellOp(sh, row, col, val) == [sh EXCEPT ![row][col] = val]

\* Worksheet.row_values(row): the row without its trailing empty cells
RECURSIVE Trim(_)
Trim(row) ==
  IF row = <<>> THEN <<>>
  ELSE IF row[Len(row)] = "" THEN Trim(SubSeq(row, 1, Len(row) - 1))
  ELSE row

RowValuesOp(sh, row) == Trim(sh[row])

\* Worksheet.append_row(values): a new last row, short rows padded with
\* empty cells
AppendRowOp(sh, values) ==
  Append(sh, [c \in 1..NCols |-> IF c <= Len(values) THEN values[c] ELSE ""])

\* Python truthiness of a cell value: None and "" are false
Truthy(v) == v # "" /\ v # NoneStr

----------------------------------------------------------------------------
(* with_retry *)

\* the loop state of one with_retry call, with counts of what it has done
NewRetry ==
  [attempt |-> 0, calls |-> 0, warnings |-> 0, sleeps |-> 0,
   status |-> "running"]

\* line 21: func is invoked
CallFunc(r) == [r EXCEPT !.calls = @ + 1]

\* with_retry with the last attempt recognised one pass too late
with_retry_OffByOne(r, oc, max_retries) ==
  IF oc = "ok" THEN [r EXCEPT !.status = "returned"]
  ELSE IF oc = "api"
       THEN IF r.attempt = max_retries
            THEN [r EXCEPT !.status = "raised_api"]
            ELSE [r EXCEPT !.attempt = @ + 1, !.warnings = @ + 1,
                           !.sleeps = @ + 1]
       ELSE [r EXCEPT !.status = "raised_other"]

\* with_retry that goes on to the next attempt after a call that succeeded
with_retry_NoReturn(r, oc, max_retries) ==
  IF oc = "ok"
  THEN IF r.attempt = max_retries - 1
       THEN [r EXCEPT !.status = "returned"]
       ELSE [r EXCEPT !.attempt = @ + 1]
  ELSE IF oc = "api"
       THEN IF r.attempt = max_retries - 1
            THEN [r EXCEPT !.status = "raised_api"]
            ELSE [r EXCEPT !.attempt = @ + 1, !.warnings = @ + 1,
                           !.sleeps = @ + 1]
       ELSE [r EXCEPT !.status = "raised_other"]

\* with_retry that catches every exception, not only APIError
with_retry_CatchAll(r, oc, max_retries) ==
  IF oc = "ok" THEN [r EXCEPT !.status = "returned"]
  ELSE IF r.attempt = max_retries - 1
       THEN [r EXCEPT !.status =
               IF oc = "api" THEN "raised_api" ELSE "raised_other"]
       ELSE [r EXCEPT !.attempt = @ + 1, !.warnings = @ + 1,
                      !.sleeps = @ + 1]

\* with_retry that never gives up on APIError
with_retry_NeverGivesUp(r, oc, max_retries) ==
  IF oc = "ok" THEN [r EXCEPT !.status = "returned"]
  ELSE IF oc = "api"
       THEN [r EXCEPT !.warnings = @ + 1, !.sleeps = @ + 1]
       ELSE [r EXCEPT !.status = "raised_other"]

\* lines 19-28, one pass of the loop body after func() has ended with oc:
\* return its value, or re-raise on the last attempt, or warn, sleep and
\* go round again; an exception other than APIError is not caught
with_retry(r, oc, max_retries) ==
  IF oc = "ok" THEN [r EXCEPT !.status = "returned"]
  ELSE IF oc = "api"
       THEN IF r.attempt = max_retries - 1
            THEN [r EXCEPT !.status = "raised_api"]
            ELSE [r EXCEPT !.attempt = @ + 1, !.warnings = @ + 1,
                           !.sleeps = @ + 1]
       ELSE [r EXCEPT !.status = "raised_other"]

----------------------------------------------------------------------------
(* State *)

VARIABLES
  sheet,    \* the answer sheet (workbook.sheet1): a sequence of rows
  qlog,     \* the question sheet: a sequence of rows
  pc,       \* per session: the position of its script run
  ss,       \* per session: st.session_state
  fr,       \* per session: the locals of the running handler, with the
            \* sheets and session state as they were when it started
  rt,       \* per session: the with_retry call in progress
  msg,      \* per session: the message the script run has shown
  harness   \* a with_retry call on a scripted func: its max_retries, the
            \* outcome of each call of func, its loop state and its result

vars == <<sheet, qlog, pc, ss, fr, rt, msg, harness>>

\* lines 55-60
InitSessionState ==
  [confirm_overwrite |-> FALSE, row_number |-> 0, col_number |-> 0,
   answer |-> NoneStr, existing_answer |-> NoneStr]

\* no handler is running; trail is how the earlier submissions of the same
\* form values, made one after the other, have ended
NoFrame ==
  [kind |-> "none", username |-> "", question_num |-> 0, answer |-> "",
   row_number |-> 0, existing_answer |-> "", col_count |-> 0,
   path |-> "none", name |-> "", question |-> "", current_time |-> 0,
   sheet0 |-> <<>>, qlog0 |-> <<>>, ss0 |-> InitSessionState,
   writes |-> 0, trail |-> <<>>]

NoRetry == [NewRetry EXCEPT !.status = "none"]

\* what a scripted func does when called: raise APIError, raise another
\* exception, or return one of two values
FuncResults == {"r1", "r2"}
FuncOutcomes == {"api", "other"} \cup FuncResults

\* no with_retry call under test
NoHarness ==
  [max_retries |-> MaxRetries, script |-> <<>>, r |-> NoRetry,
   ret |-> NoneStr]

\* the sheets as the sessions find them, and every session at the start of
\* its script
AppInit ==
  /\ sheet = <<Header>>
  /\ qlog = <<>>
  /\ pc = [s \in AllSessions |-> "start"]
  /\ ss = [s \in AllSessions |-> InitSessionState]
  /\ fr = [s \in AllSessions |-> NoFrame]
  /\ rt = [s \in AllSessions |-> NoRetry]
  /\ msg = [s \in AllSessions |-> "none"]

Init ==
  /\ AppInit
  /\ harness = NoHarness

----------------------------------------------------------------------------
(* Start of a session, lines 37-60 *)

\* the script starts: initialize_workbook calls with_retry(_open_workbook)
Start(s) ==
  /\ pc[s] = "start"
  /\ UNCHANGED harness
  /\ pc' = [pc EXCEPT ![s] = "open"]
  /\ rt' = [rt EXCEPT ![s] = NewRetry]
  /\ UNCHANGED <<sheet, qlog, ss, fr, msg>>

\* the start of the script without st.stop(): the error is shown and the
\* script goes on
OpenWorkbook_NoStop(s) ==
  /\ pc[s] = "open"
  /\ UNCHANGED harness
  /\ \E oc \in Outcomes :
       LET r == with_retry(CallFunc(rt[s]), oc, MaxRetries)
       IN  /\ rt' = [rt EXCEPT ![s] = r]
           /\ IF r.status = "returned"
              THEN /\ pc' = [pc EXCEPT ![s] = "worksheets"]
                   /\ msg' = msg
              ELSE IF r.status = "running"
              THEN UNCHANGED <<pc, msg>>
              ELSE /\ pc' = [pc EXCEPT ![s] = "idle"]
                   /\ msg' = [msg EXCEPT ![s] = "error"]
  /\ UNCHANGED <<sheet, qlog, ss, fr>>

\* lines 40-43 and 50-52: gc.open_by_key under with_retry; a failure that
\* with_retry raises is shown and the script stops
OpenWorkbook(s) ==
  /\ pc[s] = "open"
  /\ UNCHANGED harness
  /\ \E oc \in Outcomes :
       LET r == with_retry(CallFunc(rt[s]), oc, MaxRetries)
       IN  /\ rt' = [rt EXCEPT ![s] = r]
           /\ IF r.status = "returned"
              THEN /\ pc' = [pc EXCEPT ![s] = "worksheets"]
                   /\ msg' = msg
              ELSE IF r.status = "running"
              THEN UNCHANGED <<pc, msg>>
              ELSE /\ pc' = [pc EXCEPT ![s] = "halted"]
                   /\ msg' = [msg EXCEPT ![s] = "error"]
  /\ UNCHANGED <<sheet, qlog, ss, fr>>

\* lines 48-52 and 55-60: the two worksheets are fetched without retry;
\* any failure is shown and the script stops, otherwise the session state
\* is initialised and the forms are rendered
GetWorksheets(s) ==
  /\ pc[s] = "worksheets"
  /\ UNCHANGED harness
  /\ \E oc \in Outcomes :
       IF oc = "ok"
       THEN /\ pc' = [pc EXCEPT ![s] = "idle"]
            /\ ss' = [ss EXCEPT ![s] = InitSessionState]
            /\ msg' = msg
       ELSE /\ pc' = [pc EXCEPT ![s] = "halted"]
            /\ msg' = [msg EXCEPT ![s] = "error"]
            /\ ss' = ss
  /\ rt' = [rt EXCEPT ![s] = NoRetry]
  /\ UNCHANGED <<sheet, qlog, fr>>

----------------------------------------------------------------------------
(* The answer form, lines 150-162, and update_sheet, lines 62-110 *)

\* the handler has started: what it will be compared against afterwards
NewFrame(s, kind) ==
  [NoFrame EXCEPT !.kind = kind, !.sheet0 = sheet, !.qlog0 = qlog,
                  !.ss0 = ss[s]]

\* line 96: [username] + [''] * (col_count - 1)
NewRow(username, col_count) ==
  <<username>> \o [i \in 1..(col_count - 1) |-> ""]

\* lines 80-84 with the two answers stored in each other's slot
SetPending_Swapped(st, row_number, col_number, answer, existing_answer) ==
  [confirm_overwrite |-> TRUE, row_number |-> row_number,
   col_number |-> col_number, answer |-> existing_answer,
   existing_answer |-> answer]

\* lines 80-84 with the row and the column kept while an overwrite is pending
SetPending_KeepTarget(st, row_number, col_number, answer, existing_answer) ==
  [confirm_overwrite |-> TRUE,
   row_number |-> IF st.confirm_overwrite THEN st.row_number ELSE row_number,
   col_number |-> IF st.confirm_overwrite THEN st.col_number ELSE col_number,
   answer |-> answer, existing_answer |-> existing_answer]

\* lines 80-84
SetPending(st, row_number, col_number, answer, existing_answer) ==
  [confirm_overwrite |-> TRUE, row_number |-> row_number,
   col_number |-> col_number, answer |-> answer,
   existing_answer |-> existing_answer]

\* the position of the label taken as the question index
question_index_ZeroBased(pos) == pos

\* line 161: options.index(question_num) + 1, pos being the 0-based position
\* of the selected label
question_index(pos) == pos + 1

\* lines 156-162: the answer form is submitted; an empty username is
\* refused, otherwise update_sheet starts with question_index = position of
\* the selected label + 1
Submit(s) ==
  /\ pc[s] = "idle"
  /\ UNCHANGED harness
  /\ \E username \in Names \cup {""}, pos \in 0..(NumOptions - 1),
        answer \in Answers :
       IF username = ""
       THEN /\ fr' = [fr EXCEPT ![s] = NewFrame(s, "answer")]
            /\ pc' = [pc EXCEPT ![s] = "done"]
            /\ msg' = [msg EXCEPT ![s] = "error"]
            /\ rt' = rt
       ELSE /\ fr' = [fr EXCEPT ![s] =
                        [NewFrame(s, "answer") EXCEPT
                           !.username = username,
                           !.question_num = question_index(pos),
                           !.answer = answer]]
            /\ pc' = [pc EXCEPT ![s] = "find"]
            /\ msg' = [msg EXCEPT ![s] = "none"]
            /\ rt' = [rt EXCEPT ![s] = NewRetry]
  /\ UNCHANGED <<sheet, qlog, ss>>

\* lines 109-110: an exception leaves update_sheet through its handler
Failed(s) ==
  /\ pc' = [pc EXCEPT ![s] = "done"]
  /\ msg' = [msg EXCEPT ![s] = "error"]

\* lines 64-72: with_retry(_find_user), then the branch on the result
FindUser(s) ==
  /\ pc[s] = "find"
  /\ UNCHANGED harness
  /\ \E oc \in Outcomes :
       LET r == with_retry(CallFunc(rt[s]), oc, MaxRetries)
           cell == FindCell(sheet, fr[s].username)
       IN  IF r.status = "returned"
           THEN /\ rt' = [rt EXCEPT ![s] = NewRetry]
                /\ msg' = msg
                /\ IF cell # NoCell
                   THEN /\ fr' = [fr EXCEPT ![s].row_number = cell.row]
                        /\ pc' = [pc EXCEPT ![s] = "get"]
                   ELSE /\ fr' = fr
                        /\ pc' = [pc EXCEPT ![s] = "row_values"]
           ELSE IF r.status = "running"
           THEN /\ rt' = [rt EXCEPT ![s] = r]
                /\ UNCHANGED <<pc, fr, msg>>
           ELSE /\ rt' = [rt EXCEPT ![s] = r]
                /\ fr' = fr
                /\ Failed(s)
  /\ UNCHANGED <<sheet, qlog, ss>>

\* confirmation asked for only when the new answer differs from the old one
NeedsConfirmation_IfDifferent(existing_answer, answer) ==
  Truthy(existing_answer) /\ existing_answer # answer

\* line 79: if existing_answer
NeedsConfirmation(existing_answer, answer) == Truthy(existing_answer)

\* lines 74-85: with_retry(_get_cell_value); a non-empty value is put up
\* for confirmation, an empty one leads to the direct write
GetCellValue(s) ==
  /\ pc[s] = "get"
  /\ UNCHANGED harness
  /\ \E oc \in Outcomes :
       LET r == with_retry(CallFunc(rt[s]), oc, MaxRetries)
           existing_answer ==
             CellValue(sheet, fr[s].row_number, fr[s].question_num + 1)
       IN  IF r.status = "returned"
           THEN /\ msg' = msg
                /\ fr' = [fr EXCEPT ![s].existing_answer = existing_answer,
                                    ![s].path =
                                      IF NeedsConfirmation(existing_answer,
                                                           fr[s].answer)
                                      THEN "conflict" ELSE "direct"]
                /\ IF NeedsConfirmation(existing_answer, fr[s].answer)
                   THEN /\ ss' = [ss EXCEPT ![s] =
                                    SetPending(ss[s], fr[s].row_number,
                                               fr[s].question_num + 1,
                                               fr[s].answer,
                                               existing_answer)]
                        /\ pc' = [pc EXCEPT ![s] = "done"]
                        /\ rt' = [rt EXCEPT ![s] = r]
                   ELSE /\ ss' = ss
                        /\ pc' = [pc EXCEPT ![s] = "update"]
                        /\ rt' = [rt EXCEPT ![s] = NewRetry]
           ELSE IF r.status = "running"
           THEN /\ rt' = [rt EXCEPT ![s] = r]
                /\ UNCHANGED <<pc, fr, msg, ss>>
           ELSE /\ rt' = [rt EXCEPT ![s] = r]
                /\ UNCHANGED <<fr, ss>>
                /\ Failed(s)
  /\ UNCHANGED <<sheet, qlog>>

\* the direct write made only when the cell is still empty
UpdateCell_IfStillEmpty(s) ==
  /\ pc[s] = "update"
  /\ UNCHANGED harness
  /\ \E oc \in Outcomes :
       LET r == with_retry(CallFunc(rt[s]), oc, MaxRetries)
       IN  /\ rt' = [rt EXCEPT ![s] = r]
           /\ fr' = [fr EXCEPT ![s].writes = @ + 1]
           /\ IF /\ r.status = "returned"
                 /\ CellValue(sheet, fr[s].row_number,
                              fr[s].question_num + 1) = ""
              THEN /\ sheet' = UpdateCellOp(sheet, fr[s].row_number,
                                            fr[s].question_num + 1,
                                            fr[s].answer)
                   /\ pc' = [pc EXCEPT ![s] = "done"]
                   /\ msg' = [msg EXCEPT ![s] = "success"]
              ELSE IF r.status = "running"
              THEN UNCHANGED <<sheet, pc, msg>>
              ELSE /\ sheet' = sheet
                   /\ Failed(s)
  /\ UNCHANGED <<qlog, ss>>

\* lines 86-90: with_retry(_update_cell) and the success message
UpdateCell(s) ==
  /\ pc[s] = "update"
  /\ UNCHANGED harness
  /\ \E oc \in Outcomes :
       LET r == with_retry(CallFunc(rt[s]), oc, MaxRetries)
       IN  /\ rt' = [rt EXCEPT ![s] = r]
           /\ fr' = [fr EXCEPT ![s].writes = @ + 1]
           /\ IF r.status = "returned"
              THEN /\ sheet' = UpdateCellOp(sheet, fr[s].row_number,
                                            fr[s].question_num + 1,
                                            fr[s].answer)
                   /\ pc' = [pc EXCEPT ![s] = "done"]
                   /\ msg' = [msg EXCEPT ![s] = "success"]
              ELSE IF r.status = "running"
              THEN UNCHANGED <<sheet, pc, msg>>
              ELSE /\ sheet' = sheet
                   /\ Failed(s)
  /\ UNCHANGED <<qlog, ss>>

\* an exception inside _append_row reaches with_retry's except clause: the
\* whole of _append_row is run again, or the exception leaves update_sheet
AppendRowRaised(s, r) ==
  /\ rt' = [rt EXCEPT ![s] = r]
  /\ IF r.status = "running"
     THEN /\ pc' = [pc EXCEPT ![s] = "row_values"]
          /\ msg' = msg
     ELSE Failed(s)

\* lines 93-95: _append_row is invoked and reads the header row
RowValues(s) ==
  /\ pc[s] = "row_values"
  /\ UNCHANGED harness
  /\ \E oc \in Outcomes :
       IF oc = "ok"
       THEN /\ rt' = [rt EXCEPT ![s] = CallFunc(rt[s])]
            /\ fr' = [fr EXCEPT ![s].col_count = Len(RowValuesOp(sheet, 1)),
                                ![s].path = "new"]
            /\ pc' = [pc EXCEPT ![s] = "append_row"]
            /\ msg' = msg
       ELSE /\ AppendRowRaised(s, with_retry(CallFunc(rt[s]), oc, MaxRetries))
            /\ fr' = [fr EXCEPT ![s].path = "new"]
  /\ UNCHANGED <<sheet, qlog, ss>>

\* lines 96-97 of _append_row: the new row is built and appended
AppendRow(s) ==
  /\ pc[s] = "append_row"
  /\ UNCHANGED harness
  /\ fr' = [fr EXCEPT ![s].writes = @ + 1]
  /\ \E oc \in Outcomes :
       IF oc = "ok"
       THEN /\ Len(sheet) < MaxRows
            /\ sheet' = AppendRowOp(sheet, NewRow(fr[s].username,
                                                  fr[s].col_count))
            /\ pc' = [pc EXCEPT ![s] = "refind"]
            /\ UNCHANGED <<rt, msg>>
       ELSE /\ AppendRowRaised(s, with_retry(rt[s], oc, MaxRetries))
            /\ sheet' = sheet
  /\ UNCHANGED <<qlog, ss>>

\* lines 98-101: _append_row looks the username up again and returns the
\* cell; update_sheet takes its row
ReFind(s) ==
  /\ pc[s] = "refind"
  /\ UNCHANGED harness
  /\ \E oc \in Outcomes :
       LET new_cell == FindCell(sheet, fr[s].username)
       IN  IF oc = "ok"
           THEN IF new_cell # NoCell
                THEN /\ fr' = [fr EXCEPT ![s].row_number = new_cell.row]
                     /\ pc' = [pc EXCEPT ![s] = "update_new"]
                     /\ rt' = [rt EXCEPT ![s] = NewRetry]
                     /\ msg' = msg
                ELSE /\ fr' = fr
                     /\ rt' = [rt EXCEPT ![s] =
                                 with_retry(rt[s], "ok", MaxRetries)]
                     /\ Failed(s)
           ELSE /\ AppendRowRaised(s, with_retry(rt[s], oc, MaxRetries))
                /\ fr' = fr
  /\ UNCHANGED <<sheet, qlog, ss>>

\* lines 103-107: with_retry(_update_new_cell) and the success message
UpdateNewCell(s) ==
  /\ pc[s] = "update_new"
  /\ UNCHANGED harness
  /\ \E oc \in Outcomes :
       LET r == with_retry(CallFunc(rt[s]), oc, MaxRetries)
       IN  /\ rt' = [rt EXCEPT ![s] = r]
           /\ fr' = [fr EXCEPT ![s].writes = @ + 1]
           /\ IF r.status = "returned"
              THEN /\ sheet' = UpdateCellOp(sheet, fr[s].row_number,
                                            fr[s].question_num + 1,
                                            fr[s].answer)
                   /\ pc' = [pc EXCEPT ![s] = "done"]
                   /\ msg' = [msg EXCEPT ![s] = "success"]
              ELSE IF r.status = "running"
              THEN UNCHANGED <<sheet, pc, msg>>
              ELSE /\ sheet' = sheet
                   /\ Failed(s)
  /\ UNCHANGED <<qlog, ss>>

----------------------------------------------------------------------------
(* The confirmation panel, lines 164-187 *)

\* line 164: the panel with its two buttons is on the page
PanelShown(s) == pc[s] \in {"idle", "done"} /\ ss[s].confirm_overwrite

\* the flag is left set
ClearPending_Kept(st) == st

\* lines 177 and 186: the pending overwrite is over
ClearPending(st) == [st EXCEPT !.confirm_overwrite = FALSE]

\* the overwrite writes the value the cell already has
overwrite_cell_Existing(sh, st) ==
  UpdateCellOp(sh, st.row_number, st.col_number, st.existing_answer)

\* lines 170-171: _overwrite_cell writes the pending answer at the pending
\* row and column
overwrite_cell(sh, st) ==
  UpdateCellOp(sh, st.row_number, st.col_number, st.answer)

\* line 169: the button "yes" of the panel is pressed
ConfirmYes(s) ==
  /\ pc[s] = "idle"
  /\ UNCHANGED harness
  /\ ss[s].confirm_overwrite
  /\ fr' = [fr EXCEPT ![s] = NewFrame(s, "yes")]
  /\ pc' = [pc EXCEPT ![s] = "overwrite"]
  /\ rt' = [rt EXCEPT ![s] = NewRetry]
  /\ msg' = [msg EXCEPT ![s] = "none"]
  /\ UNCHANGED <<sheet, qlog, ss>>

\* lines 170-180: with_retry(_overwrite_cell); on success the flag is
\* cleared and the script is rerun, on failure the error is shown
OverwriteCell(s) ==
  /\ pc[s] = "overwrite"
  /\ UNCHANGED harness
  /\ \E oc \in Outcomes :
       LET r == with_retry(CallFunc(rt[s]), oc, MaxRetries)
       IN  /\ rt' = [rt EXCEPT ![s] = r]
           /\ fr' = [fr EXCEPT ![s].writes = @ + 1]
           /\ IF r.status = "returned"
              THEN /\ sheet' = overwrite_cell(sheet, ss[s])
                   /\ ss' = [ss EXCEPT ![s] = ClearPending(ss[s])]
                   /\ pc' = [pc EXCEPT ![s] = "done"]
                   /\ msg' = [msg EXCEPT ![s] = "success"]
              ELSE IF r.status = "running"
              THEN UNCHANGED <<sheet, ss, pc, msg>>
              ELSE /\ UNCHANGED <<sheet, ss>>
                   /\ pc' = [pc EXCEPT ![s] = "done"]
                   /\ msg' = [msg EXCEPT ![s] = "error"]
  /\ UNCHANGED qlog

\* lines 183-187: the button "no" of the panel is pressed
ConfirmNo(s) ==
  /\ pc[s] = "idle"
  /\ UNCHANGED harness
  /\ ss[s].confirm_overwrite
  /\ fr' = [fr EXCEPT ![s] = NewFrame(s, "no")]
  /\ ss' = [ss EXCEPT ![s] = ClearPending(ss[s])]
  /\ pc' = [pc EXCEPT ![s] = "done"]
  /\ msg' = [msg EXCEPT ![s] = "info"]
  /\ UNCHANGED <<sheet, qlog, rt>>

----------------------------------------------------------------------------
(* The question form, lines 191-200, and add_question, lines 112-125 *)

\* line 115: the clock reading t as formatted by strftime
Timestamp(t) == "t" \o ToString(t)

\* the row with name and question in each other's column
QuestionRow_Swapped(name, question, current_time) ==
  <<question, name, Timestamp(current_time)>>

\* line 119: the row add_question appends
QuestionRow(name, question, current_time) ==
  <<name, question, Timestamp(current_time)>>

\* lines 196-200 and 113-115: the question form is submitted; an empty name
\* or question is refused, otherwise add_question reads the clock
SubmitQuestion(s) ==
  /\ pc[s] = "idle"
  /\ UNCHANGED harness
  /\ \E name \in {"", "a"}, question \in Questions, t \in 0..MaxTime :
       IF name = "" \/ question = ""
       THEN /\ fr' = [fr EXCEPT ![s] = NewFrame(s, "question")]
            /\ pc' = [pc EXCEPT ![s] = "done"]
            /\ msg' = [msg EXCEPT ![s] = "error"]
            /\ rt' = rt
       ELSE /\ fr' = [fr EXCEPT ![s] =
                        [NewFrame(s, "question") EXCEPT
                           !.name = name, !.question = question,
                           !.current_time = t]]
            /\ pc' = [pc EXCEPT ![s] = "append_question"]
            /\ msg' = [msg EXCEPT ![s] = "none"]
            /\ rt' = [rt EXCEPT ![s] = NewRetry]
  /\ UNCHANGED <<sheet, qlog, ss>>

\* lines 118-125: with_retry(_append_question), then the success message
\* or, from the handler, the error message
AppendQuestion(s) ==
  /\ pc[s] = "append_question"
  /\ UNCHANGED harness
  /\ \E oc \in Outcomes :
       LET r == with_retry(CallFunc(rt[s]), oc, MaxRetries)
       IN  /\ rt' = [rt EXCEPT ![s] = r]
           /\ fr' = [fr EXCEPT ![s].writes = @ + 1]
           /\ IF r.status = "returned"
              THEN /\ Len(qlog) < MaxQLog
                   /\ qlog' = Append(qlog, QuestionRow(fr[s].name,
                                                        fr[s].question,
                                                        fr[s].current_time))
                   /\ pc' = [pc EXCEPT ![s] = "done"]
                   /\ msg' = [msg EXCEPT ![s] = "success"]
              ELSE IF r.status = "running"
              THEN UNCHANGED <<qlog, pc, msg>>
              ELSE /\ qlog' = qlog
                   /\ Failed(s)
  /\ UNCHANGED <<sheet, ss>>

----------------------------------------------------------------------------
(* The script run ends *)

\* the page is rendered and the script run is over: its locals are gone
EndRun(s) ==
  /\ pc[s] = "done"
  /\ UNCHANGED harness
  /\ pc' = [pc EXCEPT ![s] = "idle"]
  /\ fr' = [fr EXCEPT ![s] = NoFrame]
  /\ rt' = [rt EXCEPT ![s] = NoRetry]
  /\ msg' = [msg EXCEPT ![s] = "none"]
  /\ UNCHANGED <<sheet, qlog, ss>>

----------------------------------------------------------------------------
(* One session using the application *)

Next ==
  \/ \E s \in {1} : Start(s)
  \/ \E s \in {1} : OpenWorkbook(s)
  \/ \E s \in {1} : GetWorksheets(s)
  \/ \E s \in {1} : Submit(s)
  \/ \E s \in {1} : FindUser(s)
  \/ \E s \in {1} : GetCellValue(s)
  \/ \E s \in {1} : UpdateCell(s)
  \/ \E s \in {1} : RowValues(s)
  \/ \E s \in {1} : AppendRow(s)
  \/ \E s \in {1} : ReFind(s)
  \/ \E s \in {1} : UpdateNewCell(s)
  \/ \E s \in {1} : ConfirmYes(s)
  \/ \E s \in {1} : OverwriteCell(s)
  \/ \E s \in {1} : ConfirmNo(s)
  \/ \E s \in {1} : SubmitQuestion(s)
  \/ \E s \in {1} : AppendQuestion(s)
  \/ \E s \in {1} : EndRun(s)

Spec == Init /\ [][Next]_vars

----------------------------------------------------------------------------
(* A script run goes on until it is over *)

\* a step of the script run of session s: a remote call returns or raises
\* and the code after it runs
RunStep(s) ==
  \/ OpenWorkbook(s)
  \/ GetWorksheets(s)
  \/ FindUser(s)
  \/ GetCellValue(s)
  \/ UpdateCell(s)
  \/ RowValues(s)
  \/ AppendRow(s)
  \/ ReFind(s)
  \/ UpdateNewCell(s)
  \/ OverwriteCell(s)
  \/ AppendQuestion(s)

\* the runs looked at for termination: the session belongs to user "a"
OneUser == \A s \in AllSessions : fr[s].username \in {"", "a"}

\* one session of user "a" using the application
FairNext ==
  \/ \E s \in {1} : Start(s) /\ OneUser'
  \/ \E s \in {1} : OpenWorkbook(s) /\ OneUser'
  \/ \E s \in {1} : GetWorksheets(s) /\ OneUser'
  \/ \E s \in {1} : Submit(s) /\ OneUser'
  \/ \E s \in {1} : FindUser(s) /\ OneUser'
  \/ \E s \in {1} : GetCellValue(s) /\ OneUser'
  \/ \E s \in {1} : UpdateCell(s) /\ OneUser'
  \/ \E s \in {1} : RowValues(s) /\ OneUser'
  \/ \E s \in {1} : AppendRow(s) /\ OneUser'
  \/ \E s \in {1} : ReFind(s) /\ OneUser'
  \/ \E s \in {1} : UpdateNewCell(s) /\ OneUser'
  \/ \E s \in {1} : ConfirmYes(s) /\ OneUser'
  \/ \E s \in {1} : OverwriteCell(s) /\ OneUser'
  \/ \E s \in {1} : ConfirmNo(s) /\ OneUser'
  \/ \E s \in {1} : SubmitQuestion(s) /\ OneUser'
  \/ \E s \in {1} : AppendQuestion(s) /\ OneUser'
  \/ \E s \in {1} : EndRun(s) /\ OneUser'

\* the script is single-threaded and every remote call returns or raises:
\* a run that has started keeps taking steps
FairSpec ==
  Init /\ [][FairNext]_vars /\ WF_vars(\E s \in {1} : RunStep(s))

----------------------------------------------------------------------------
(* The answer form submitted again and again *)

\* how the run of update_sheet that is over has ended
RunOutcome(s) == IF msg[s] = "error" THEN "error" ELSE fr[s].path

\* lines 150-162: the form keeps its values after a submission; the submit
\* button is pressed again on the page of the run that is over, and
\* update_sheet starts with the same username, question and answer
Resubmit(s) ==
  /\ pc[s] = "done"
  /\ UNCHANGED harness
  /\ fr[s].kind = "answer"
  /\ fr[s].username # ""
  /\ Len(fr[s].trail) < MaxRepeat - 1
  /\ fr' = [fr EXCEPT ![s] =
              [NewFrame(s, "answer") EXCEPT
                 !.username = fr[s].username,
                 !.question_num = fr[s].question_num,
                 !.answer = fr[s].answer,
                 !.trail = Append(fr[s].trail, RunOutcome(s))]]
  /\ pc' = [pc EXCEPT ![s] = "find"]
  /\ msg' = [msg EXCEPT ![s] = "none"]
  /\ rt' = [rt EXCEPT ![s] = NewRetry]
  /\ UNCHANGED <<sheet, qlog, ss>>

\* one session that uses the answer form and the confirmation panel only
RepeatNext ==
  \/ \E s \in {1} : Start(s)
  \/ \E s \in {1} : OpenWorkbook(s)
  \/ \E s \in {1} : GetWorksheets(s)
  \/ \E s \in {1} : Submit(s)
  \/ \E s \in {1} : Resubmit(s)
  \/ \E s \in {1} : FindUser(s)
  \/ \E s \in {1} : GetCellValue(s)
  \/ \E s \in {1} : UpdateCell(s)
  \/ \E s \in {1} : RowValues(s)
  \/ \E s \in {1} : AppendRow(s)
  \/ \E s \in {1} : ReFind(s)
  \/ \E s \in {1} : UpdateNewCell(s)
  \/ \E s \in {1} : ConfirmYes(s)
  \/ \E s \in {1} : OverwriteCell(s)
  \/ \E s \in {1} : ConfirmNo(s)
  \/ \E s \in {1} : EndRun(s)

RepeatSpec == Init /\ [][RepeatNext]_vars

----------------------------------------------------------------------------
(* Two sessions on the same answer sheet *)

\* the runs looked at with two sessions: both sessions belong to user "a"
\* and answer the first question, and no remote call fails
TwoScenario ==
  \A s \in AllSessions :
    /\ fr[s].username \in {"", "a"}
    /\ fr[s].question_num \in {0, question_index(0)}
    /\ rt[s].attempt = 0
    /\ msg[s] # "error"

\* the steps of the two sessions interleave at their remote calls
TwoNext ==
  \/ \E s \in AllSessions : Start(s) /\ TwoScenario'
  \/ \E s \in AllSessions : OpenWorkbook(s) /\ TwoScenario'
  \/ \E s \in AllSessions : GetWorksheets(s) /\ TwoScenario'
  \/ \E s \in AllSessions : Submit(s) /\ TwoScenario'
  \/ \E s \in AllSessions : FindUser(s) /\ TwoScenario'
  \/ \E s \in AllSessions : GetCellValue(s) /\ TwoScenario'
  \/ \E s \in AllSessions : UpdateCell(s) /\ TwoScenario'
  \/ \E s \in AllSessions : RowValues(s) /\ TwoScenario'
  \/ \E s \in AllSessions : AppendRow(s) /\ TwoScenario'
  \/ \E s \in AllSessions : ReFind(s) /\ TwoScenario'
  \/ \E s \in AllSessions : UpdateNewCell(s) /\ TwoScenario'
  \/ \E s \in AllSessions : ConfirmYes(s) /\ TwoScenario'
  \/ \E s \in AllSessions : OverwriteCell(s) /\ TwoScenario'
  \/ \E s \in AllSessions : ConfirmNo(s) /\ TwoScenario'
  \/ \E s \in AllSessions : EndRun(s) /\ TwoScenario'

TwoSpec == Init /\ [][TwoNext]_vars

----------------------------------------------------------------------------
(* with_retry on its own: any max_retries, any behaviour of func *)

appvars == <<sheet, qlog, pc, ss, fr, rt, msg>>

\* with_retry(func, max_retries) is called; the script fixes what each call
\* of func will do
RetryInit ==
  /\ AppInit
  /\ \E n \in 1..MaxN, sc \in [1..(MaxN + 1) -> FuncOutcomes] :
       harness = [max_retries |-> n, script |-> sc, r |-> NewRetry,
                  ret |-> NoneStr]

\* lines 19-28: one pass of the loop: func is called and does what the
\* script says for this call
RetryPass ==
  /\ harness.r.status = "running"
  /\ harness.r.calls < Len(harness.script)
  /\ LET o == harness.script[harness.r.calls + 1]
         r == with_retry(CallFunc(harness.r),
                         IF o \in FuncResults THEN "ok" ELSE o,
                         harness.max_retries)
     IN  harness' = [harness EXCEPT
                       !.r = r,
                       !.ret = IF r.status = "returned" THEN o ELSE @]
  /\ UNCHANGED appvars

RetryNext == RetryPass

RetrySpec == RetryInit /\ [][RetryNext]_vars

----------------------------------------------------------------------------
(* Properties of update_sheet and of the confirmation panel *)

\* the row a new user gets: the username, the answer in the column of the
\* question, nothing else
FreshRow(username, question_num, answer) ==
  [c \in 1..NCols |-> IF c = 1 THEN username
                      ELSE IF c = question_num + 1 THEN answer ELSE ""]

\* session s has finished a run of the answer form that called update_sheet
AnswerDone(s) ==
  pc[s] = "done" /\ fr[s].kind = "answer" /\ fr[s].username # ""

\* C1: a submit_answer for a username that is in no cell of the sheet and
\* that ends with the success message has added exactly one row, which holds
\* the username in column 1, the answer in column question_index + 1 and
\* nothing else, and has left the rows that were there as they were.
C1_NewUserOneRow ==
  \A s \in AllSessions :
    ( /\ AnswerDone(s)
      /\ msg[s] = "success"
      /\ FindCell(fr[s].sheet0, fr[s].username) = NoCell )
    => /\ Len(sheet) = Len(fr[s].sheet0) + 1
       /\ \A i \in 1..Len(fr[s].sheet0) : sheet[i] = fr[s].sheet0[i]
       /\ sheet[Len(sheet)] =
            FreshRow(fr[s].username, fr[s].question_num, fr[s].answer)

\* C9: no two rows of the answer sheet have the same value in column 1.
C9_UsernameUnique ==
  \A i, j \in 1..Len(sheet) : i # j => sheet[i][1] # sheet[j][1]

\* the username of the running submission is the first cell of the row that
\* find returns for it on the sheet as it was when the submission started
TargetsOwnRow(s) ==
  LET cell == FindCell(fr[s].sheet0, fr[s].username)
  IN  cell # NoCell /\ cell.col = 1

\* the target cell of the running submission, when TargetsOwnRow(s)
TargetRow(s) == FindCell(fr[s].sheet0, fr[s].username).row
TargetCol(s) == fr[s].question_num + 1

\* C5: a submit_answer of an existing username whose target cell is empty
\* and that meets no error has written the answer into that cell, and no
\* confirmation panel is on the page after it.
C5_DirectWriteNoPrompt ==
  \A s \in AllSessions :
    ( /\ AnswerDone(s)
      /\ msg[s] # "error"
      /\ TargetsOwnRow(s)
      /\ fr[s].sheet0[TargetRow(s)][TargetCol(s)] = "" )
    => /\ sheet[TargetRow(s)][TargetCol(s)] = fr[s].answer
       /\ ~PanelShown(s)

\* a non-empty cell of the answer sheet changes only in a step of the
\* overwrite that a confirmation "yes" has started
NonEmptyCellKept ==
  \A r \in 1..Len(sheet), c \in 1..NCols :
    (sheet[r][c] # "" /\ sheet'[r][c] # sheet[r][c])
      => \E s \in AllSessions : pc[s] = "overwrite"

\* a submission that has found a non-empty target cell has changed no cell
\* and, once it is over without an error, has recorded the row, the column,
\* its answer and the value of the cell
ConflictRecorded ==
  \A s \in AllSessions :
    ( /\ fr[s].kind = "answer" /\ fr[s].username # ""
      /\ FindCell(fr[s].sheet0, fr[s].username) # NoCell
      /\ fr[s].sheet0[TargetRow(s)][TargetCol(s)] # "" )
    => /\ sheet = fr[s].sheet0
       /\ (pc[s] = "done" /\ msg[s] # "error")
            => /\ ss[s].confirm_overwrite
               /\ ss[s].row_number = TargetRow(s)
               /\ ss[s].col_number = TargetCol(s)
               /\ ss[s].answer = fr[s].answer
               /\ ss[s].existing_answer =
                    fr[s].sheet0[TargetRow(s)][TargetCol(s)]

\* C2: a submit_answer whose target cell is non-empty changes no cell and
\* sets the pending overwrite to the row, the column, the new answer and the
\* existing answer; a non-empty cell keeps its value in every step that is
\* not the overwrite of a confirmation "yes".
C2_NoWriteBeforeConfirm == []ConflictRecorded /\ [][NonEmptyCellKept]_vars

\* a conflicting submission is over, its answer differs from the existing
\* one, and one of its remote calls was retried
C2_Witness ==
  \E s \in AllSessions :
    /\ AnswerDone(s) /\ fr[s].path = "conflict"
    /\ ss[s].confirm_overwrite
    /\ ss[s].answer # ss[s].existing_answer
    /\ rt[s].attempt > 0

\* C3: after a confirmation "yes" whose write succeeded, the pending cell
\* holds the pending answer, every other cell is as it was, and the pending
\* overwrite is cleared.
C3_YesOverwrites ==
  \A s \in AllSessions :
    (pc[s] = "done" /\ fr[s].kind = "yes" /\ msg[s] = "success")
    => /\ Len(sheet) = Len(fr[s].sheet0)
       /\ \A r \in 1..Len(sheet), c \in 1..NCols :
            sheet[r][c] =
              IF r = fr[s].ss0.row_number /\ c = fr[s].ss0.col_number
              THEN fr[s].ss0.answer
              ELSE fr[s].sheet0[r][c]
       /\ ~ss[s].confirm_overwrite

\* a confirmed overwrite has succeeded after a retry and changed the cell
C3_Witness ==
  \E s \in AllSessions :
    /\ pc[s] = "done" /\ fr[s].kind = "yes" /\ msg[s] = "success"
    /\ rt[s].attempt > 0
    /\ sheet # fr[s].sheet0

\* C4: a confirmation "no" issues no remote write, leaves every cell of the
\* answer sheet as it was, and clears the pending overwrite.
C4_NoCancels ==
  \A s \in AllSessions :
    fr[s].kind = "no"
    => /\ pc[s] = "done"
       /\ fr[s].writes = 0
       /\ sheet = fr[s].sheet0
       /\ qlog = fr[s].qlog0
       /\ fr[s].ss0.confirm_overwrite
       /\ ~ss[s].confirm_overwrite

\* a pending overwrite that would have changed the cell has been cancelled
C4_Witness ==
  \E s \in AllSessions :
    /\ pc[s] = "done" /\ fr[s].kind = "no"
    /\ sheet[ss[s].row_number][ss[s].col_number] # ss[s].answer

----------------------------------------------------------------------------
(* Properties of add_question *)

\* C10: a submit_question that ends with the success message has added
\* exactly one row, [name, question, timestamp], to the question sheet and
\* has left the rows that were there as they were; while it runs and when it
\* ends with an error the question sheet is as it was.
C10_QuestionAppended ==
  \A s \in AllSessions :
    fr[s].kind = "question"
    => IF pc[s] = "done" /\ msg[s] = "success"
       THEN /\ Len(qlog) = Len(fr[s].qlog0) + 1
            /\ \A i \in 1..Len(fr[s].qlog0) : qlog[i] = fr[s].qlog0[i]
            /\ qlog[Len(qlog)][1] = fr[s].name
            /\ qlog[Len(qlog)][2] = fr[s].question
            /\ qlog[Len(qlog)][3] = Timestamp(fr[s].current_time)
            /\ Len(qlog[Len(qlog)]) = 3
            /\ fr[s].name # "" /\ fr[s].question # ""
       ELSE qlog = fr[s].qlog0

\* a question has been appended after a retry to a sheet that had a row
C10_Witness ==
  \E s \in AllSessions :
    /\ pc[s] = "done" /\ fr[s].kind = "question" /\ msg[s] = "success"
    /\ rt[s].attempt > 0
    /\ Len(fr[s].qlog0) > 0

----------------------------------------------------------------------------
(* Properties of with_retry, checked under RetrySpec *)

\* the first k - 1 calls of the scripted func raise APIError
ApiErrorsBefore(k) == \A i \in 1..(k - 1) : harness.script[i] = "api"

\* C6: with_retry calls func at most max_retries times; when every one of
\* these calls raises APIError, the last one is re-raised after max_retries
\* calls, with a warning and a sleep after each failure but the last.
C6_AtMostMaxRetries ==
  /\ harness.r.calls <= harness.max_retries
  /\ ( /\ ApiErrorsBefore(harness.max_retries + 1)
       /\ harness.r.calls = harness.max_retries )
     => /\ harness.r.status = "raised_api"
        /\ harness.r.sleeps = harness.max_retries - 1
        /\ harness.r.warnings = harness.max_retries - 1

\* three calls out of three have raised APIError
C6_Witness ==
  /\ harness.max_retries = 3
  /\ ApiErrorsBefore(4)
  /\ harness.r.calls = 3
  /\ harness.r.status = "raised_api"

\* C7: when func first succeeds on its k-th call after k - 1 APIErrors,
\* with_retry returns what that call returned after exactly k calls, k - 1
\* warnings and k - 1 sleeps; before that every failed call has been
\* followed by one warning, and func is not called after its success.
C7_ReturnsFirstSuccess ==
  \A k \in 1..harness.max_retries :
    (ApiErrorsBefore(k) /\ harness.script[k] \in FuncResults)
    => /\ harness.r.calls <= k
       /\ harness.r.calls < k
            => /\ harness.r.status = "running"
               /\ harness.r.warnings = harness.r.calls
               /\ harness.r.sleeps = harness.r.calls
       /\ harness.r.calls = k
            => /\ harness.r.status = "returned"
               /\ harness.ret = harness.script[k]
               /\ harness.r.warnings = k - 1
               /\ harness.r.sleeps = k - 1

\* func has succeeded on its second call out of three
C7_Witness ==
  /\ harness.max_retries = 3
  /\ harness.script[1] = "api"
  /\ harness.script[2] = "r2"
  /\ harness.r.calls = 2
  /\ harness.r.status = "returned"

\* C8: when the k-th call of func raises an exception that is not APIError,
\* with_retry lets it through at once: func is not called again, and no
\* warning and no sleep follow that call.
C8_OtherErrorPropagates ==
  \A k \in 1..harness.max_retries :
    (ApiErrorsBefore(k) /\ harness.script[k] = "other")
    => /\ harness.r.calls <= k
       /\ harness.r.calls = k
            => /\ harness.r.status = "raised_other"
               /\ harness.r.warnings = k - 1
               /\ harness.r.sleeps = k - 1

\* another exception has come on the second call and on the first
C8_Witness ==
  /\ harness.max_retries = 3
  /\ harness.script[1] = "api"
  /\ harness.script[2] = "other"
  /\ harness.r.calls = 2
  /\ harness.r.status = "raised_other"

----------------------------------------------------------------------------
(* Failures, the found row, the written column *)

\* C11: a submit_answer that ends with the error message leaves no pending
\* overwrite in the session.
C11_FailureLeavesNothingPending ==
  \A s \in AllSessions :
    (AnswerDone(s) /\ msg[s] = "error") => ~ss[s].confirm_overwrite

\* C13: when the handling of a confirmation "yes" is over, with the success
\* message or with the error message, no overwrite is pending.
C13_YesAlwaysClears ==
  \A s \in AllSessions :
    (pc[s] = "done" /\ fr[s].kind = "yes") => ~ss[s].confirm_overwrite

\* C14: the row that update_sheet has taken from find, to read it, to write
\* it or to put it up for confirmation, has the submitted username in its
\* first cell.
C14_RowOfUsername ==
  \A s \in AllSessions :
    (fr[s].kind = "answer" /\ fr[s].row_number # 0)
    => sheet[fr[s].row_number][1] = fr[s].username

\* every write that is about to be issued goes to an answer column
WritesAnswerColumn ==
  \A s \in AllSessions :
    /\ pc[s] \in {"get", "update", "update_new"}
         => fr[s].question_num + 1 \in 2..NCols
    /\ (pc[s] = "overwrite" \/ ss[s].confirm_overwrite)
         => ss[s].col_number \in 2..NCols

\* no step changes the first cell of a row
FirstCellKept ==
  \A r \in 1..Len(sheet) : sheet'[r][1] = sheet[r][1]

\* C17: every write of update_sheet and of a confirmation "yes" goes to a
\* column in 2..N+1, and column 1 of a row that exists is never changed.
C17_UsernameColumnKept == []WritesAnswerColumn /\ [][FirstCellKept]_vars

\* a confirmation "yes" has overwritten a cell of the last column
C17_Witness ==
  \E s \in AllSessions :
    /\ pc[s] = "done" /\ fr[s].kind = "yes" /\ msg[s] = "success"
    /\ fr[s].ss0.col_number = NCols
    /\ sheet # fr[s].sheet0
    /\ sheet[fr[s].ss0.row_number][1] # ""

\* a failure while the workbook and its worksheets are opened stops the
\* script, and a stopped script touches neither sheet
StartupFailureStops ==
  \A s \in AllSessions :
    /\ ( /\ pc[s] \in {"open", "worksheets"}
         /\ \/ msg'[s] = "error"
            \/ rt'[s].status \in {"raised_api", "raised_other"} )
       => pc'[s] = "halted" /\ msg'[s] = "error"
    /\ pc[s] = "halted"
       => pc'[s] = "halted" /\ sheet' = sheet /\ qlog' = qlog

\* a stopped session has shown the error and has never run a handler
HaltedDidNothing ==
  \A s \in AllSessions :
    pc[s] = "halted"
    => msg[s] = "error" /\ fr[s] = NoFrame /\ sheet = <<Header>>
       /\ qlog = <<>>

\* C18: when opening the workbook fails at the start, the error is shown,
\* the session stops, and no find, read, update or append is issued on
\* either sheet in that run.
C18_StartupFailureHalts == []HaltedDidNothing /\ [][StartupFailureStops]_vars

\* opening the workbook has failed with APIError on every attempt
C18_Witness ==
  \E s \in AllSessions :
    /\ pc[s] = "halted"
    /\ rt[s].status = "raised_api"
    /\ rt[s].calls = MaxRetries

\* the session state changes only by a conflicting submission, which sets
\* the four fields of the pending overwrite from that one submission, or by
\* clearing the flag; the overwrite writes the pending answer at the
\* pending row and column
PendingReplacedWhole ==
  \A s \in AllSessions :
    /\ ss'[s] # ss[s]
       => \/ /\ pc[s] = "get"
             /\ ss'[s] =
                  [confirm_overwrite |-> TRUE,
                   row_number |-> fr[s].row_number,
                   col_number |-> fr[s].question_num + 1,
                   answer |-> fr[s].answer,
                   existing_answer |->
                     sheet[fr[s].row_number][fr[s].question_num + 1]]
          \/ ss'[s] = [ss[s] EXCEPT !.confirm_overwrite = FALSE]
    /\ (pc[s] = "overwrite" /\ sheet' # sheet)
       => sheet' = [sheet EXCEPT
                      ![ss[s].row_number][ss[s].col_number] = ss[s].answer]

\* C19: a conflicting submission made while an overwrite is pending
\* replaces the row, the column, the new answer and the existing answer of
\* the pending overwrite together, and a confirmation "yes" writes the
\* answer of the pending overwrite at its row and column.
C19_OnePendingOverwrite == [][PendingReplacedWhole]_vars

\* a conflicting submission has replaced a pending overwrite of another
\* row, another column and another answer
C19_Witness ==
  \E s \in AllSessions :
    /\ AnswerDone(s) /\ fr[s].path = "conflict"
    /\ fr[s].ss0.confirm_overwrite /\ ss[s].confirm_overwrite
    /\ fr[s].ss0.row_number # ss[s].row_number
    /\ fr[s].ss0.col_number # ss[s].col_number
    /\ fr[s].ss0.answer # ss[s].answer

----------------------------------------------------------------------------
(* The same submission made several times, checked under RepeatSpec *)

\* session s has finished, without an error, a submission of the values
\* that it had submitted before, the first time with a direct write into
\* the empty cell of an existing row, and none of these runs has failed
RepeatedAfterDirect(s) ==
  /\ AnswerDone(s)
  /\ msg[s] # "error"
  /\ Len(fr[s].trail) >= 1
  /\ fr[s].trail[1] = "direct"
  /\ \A i \in 1..Len(fr[s].trail) : fr[s].trail[i] # "error"

\* the cell the running submission has read
ReadCell(s) == sheet[fr[s].row_number][fr[s].question_num + 1]

\* C12 as claimed: after a direct write of a non-empty answer into an empty
\* cell, the second identical submission writes directly too, and the third
\* one takes the confirmation path.
C12_TwiceDirectThenConfirm ==
  \A s \in AllSessions :
    (RepeatedAfterDirect(s) /\ fr[s].answer # "")
    => /\ ReadCell(s) = fr[s].answer
       /\ Len(fr[s].trail) = 1 => fr[s].path = "direct"
       /\ Len(fr[s].trail) = 2 => fr[s].path = "conflict"

\* C12 amended: after a direct write of a non-empty answer into an empty
\* cell, every later identical submission, the second one already, takes
\* the confirmation path although the new answer equals the existing one,
\* and the cell keeps that value; with an empty answer every identical
\* submission writes directly; a submission that has read its cell needs
\* confirmation exactly when the cell was non-empty.
C12_OnceDirectThenConfirm ==
  \A s \in AllSessions :
    /\ RepeatedAfterDirect(s)
       => IF fr[s].answer # ""
          THEN /\ fr[s].path = "conflict"
               /\ ReadCell(s) = fr[s].answer
               /\ ss[s].confirm_overwrite
               /\ ss[s].answer = fr[s].answer
               /\ ss[s].existing_answer = fr[s].answer
               /\ \A i \in 2..Len(fr[s].trail) : fr[s].trail[i] = "conflict"
          ELSE /\ fr[s].path = "direct"
               /\ ReadCell(s) = ""
    /\ (AnswerDone(s) /\ fr[s].path \in {"direct", "conflict"})
       => (fr[s].path = "conflict"
             <=> fr[s].sheet0[fr[s].row_number][fr[s].question_num + 1] # "")

\* the third identical submission of a non-empty answer is over: the first
\* wrote directly, the second and the third asked for confirmation
C12_Witness ==
  \E s \in AllSessions :
    /\ AnswerDone(s)
    /\ fr[s].trail = <<"direct", "conflict">>
    /\ fr[s].path = "conflict"
    /\ fr[s].answer # ""
    /\ ss[s].existing_answer = ss[s].answer

----------------------------------------------------------------------------
(* Two sessions, checked under TwoSpec *)

\* session s, which has read its target cell as empty, writes its answer
\* into it and reports success
DirectWrite(s) ==
  /\ UpdateCell(s)
  /\ msg'[s] = "success"
  /\ sheet'[fr[s].row_number][fr[s].question_num + 1] = fr[s].answer

\* C15: a session that has read its target cell as empty can always go on
\* to write it directly without confirmation, whatever another session has
\* written into the cell since; so two sessions that both read the cell
\* empty both write, and the answer written first is lost.
C15_WriteNotGuarded ==
  \A s \in AllSessions : pc[s] = "update" => ENABLED DirectWrite(s)

\* both sessions have read the same empty cell and have written it directly
\* with success and without confirmation; the answer of the one is gone
C15_Witness ==
  \E s, u \in AllSessions :
    /\ s # u
    /\ AnswerDone(s) /\ AnswerDone(u)
    /\ fr[s].path = "direct" /\ fr[u].path = "direct"
    /\ msg[s] = "success" /\ msg[u] = "success"
    /\ fr[s].existing_answer = "" /\ fr[u].existing_answer = ""
    /\ fr[s].row_number = fr[u].row_number
    /\ fr[s].question_num = fr[u].question_num
    /\ ~ss[s].confirm_overwrite /\ ~ss[u].confirm_overwrite
    /\ fr[s].answer # ""
    /\ ReadCell(s) = fr[u].answer
    /\ ReadCell(s) # fr[s].answer

----------------------------------------------------------------------------
(* Termination, checked under FairSpec *)

\* session s is inside a handler, at a remote call
Running(s) ==
  pc[s] \in {"find", "get", "update", "row_values", "append_row", "refind",
             "update_new", "overwrite", "append_question"}

\* no with_retry has called its func more than max_retries times
CallsBounded == \A s \in AllSessions : rt[s].calls <= MaxRetries

\* C16: every submission and every confirmation is handled to its end:
\* each with_retry calls its func at most max_retries times, and a handler
\* that is running reaches the end of its script run.
C16_HandlersComplete ==
  /\ []CallsBounded
  /\ \A s \in AllSessions : Running(s) ~> (pc[s] = "done")

\* a handler is over whose last remote call succeeded on the last attempt
C16_Witness ==
  \E s \in AllSessions :
    /\ pc[s] = "done"
    /\ rt[s].calls = MaxRetries
    /\ rt[s].status = "returned"

====
